---- MODULE Spec2Model ----
(***************************************************************************)
(* A model of the weakpass verification engine:                            *)
(*   - the resumable session store  (src/core/progress_manager.py),        *)
(*   - the batch probe executor     (src/core/async_verifier.py,           *)
(*                                   src/core/unified_verifier.py),        *)
(*   - the proxy rotation pool      (src/core/proxy_support.py),           *)
(*   - the fingerprint resolver     (src/core/config_manager.py,           *)
(*                                   src/core/simple_config.py),           *)
(*   - the response check of one probe,                                    *)
(*   - a scan under pause / resume / stop (src/weakpass_scanner_gui.py,    *)
(*                                   src/main_app.py),                     *)
(*   - the cleanup of old session files.                                   *)
(* Each subsystem has its own specification (SpecSession, SpecStore,       *)
(* SpecBatch, SpecPool, SpecResolve, SpecProbe, SpecScan, SpecClean); the  *)
(* variables of the other subsystems stay at their idle values.  Python    *)
(* list positions are 0-based; a TLA+ sequence holds position p at index   *)
(* p + 1.                                                                  *)
(***************************************************************************)
EXTENDS Integers, Sequences, FiniteSets, TLC

VARIABLES
    \* ---- session store (progress_manager.py)
    mem,              \* the ScanSession object the caller holds, or NoSession
    disk,             \* the file save_dir/<session_id>.json
    current_session,  \* ProgressManager.current_session
    op,               \* the last session-store operation called
    arg,              \* its arguments, and the I/O fault injected into it
    ret,              \* what it returned
    exc,              \* the exception it let escape to the caller ("none" if none)
    \* ---- batch executor (async_verifier.py, unified_verifier.py)
    mode,             \* "async" (verify_batch / verify_batch_async) or "sync"
    targets,          \* the batch's target list
    max_concurrent,   \* the verifier's max_concurrent
    delay,            \* the delay argument (0, or 1 for any positive delay)
    task,             \* per target: where its probe is, and its result
    semaphore,        \* the permits left in asyncio.Semaphore(max_concurrent)
    stats,            \* the verifier's aggregate stats
    batch,            \* "running", "returned" or "raised"
    valid_results,    \* the list the batch returned
    progress_calls,   \* the (count, total) pairs progress_callback was called
                      \* with during this batch, in call order
    stats_before,     \* the verifier's stats when the batch was started
    out_of_order,     \* whether a probe of this batch completed before one
                      \* submitted earlier
    \* ---- proxy pool (proxy_support.py)
    proxies,          \* ProxyPool.proxies
    enabled,          \* ProxyPool.enabled
    max_failures,     \* ProxyPool.max_failures
    rotation_strategy,\* ProxyPool.rotation_strategy
    failures,         \* ProxyPool.failures, one counter per list position
    current_index,    \* ProxyPool.current_index
    poolOp,           \* the last pool operation called
    poolArg,          \* report_result's arguments: list position (1-based) of
                      \* the reported proxy, and the success flag
    poolRet,          \* what get_proxy returned
    did_reset,        \* whether that get_proxy call ran reset_failures()
    only_reports,     \* whether report_result calls are all that was called
                      \* since the last get_proxy call
    \* ---- fingerprint resolver (config_manager.py, simple_config.py)
    resolver,         \* the class of the verifier's config_manager
    systems,          \* config.systems: the profile table, in insertion order
    rUrl,             \* the url get_system_config was last called with
    rRet,             \* what it returned
    \* ---- one probe (async_verifier.py, unified_verifier.py,
    \*      weakpass_scanner_gui.py)
    probeOp,          \* the function applied to probeArg ("init": none yet)
    probeArg,         \* the profile's indicators, and what the request met
    probeRet,         \* the returned (success, message) and LoginResult status
    \* ---- a scan under pause / resume / stop (weakpass_scanner_gui.py,
    \*      main_app.py)
    driver,           \* "scanner_core" (scan_batch_smart) or "main_app"
    scanTotal,        \* len(targets)
    scanPc,           \* the worker thread's position
    scanI,            \* the worker's loop index i
    is_paused,        \* WeakpassScannerCore.is_paused
    stop_flag,        \* stop_flag of the scanner core / of the main window
    pause_event,      \* whether _pause_event is set
    guiPc,            \* the GUI thread's position inside pause/resume/stop
    nsent,            \* the requests sent so far
    delivered,        \* the results handed on so far
    \* ---- the session directory under cleanup (progress_manager.py)
    save_dir,         \* per file name of save_dir: whether the .json file
                      \* exists, and the day of its modification time
    today,            \* the day datetime.now() falls on
    cleanOp,          \* the last operation on the directory
    cleanArg,         \* cleanup's argument, the I/O faults injected into it,
                      \* and the directory it found
    cleanExc          \* the exception cleanup let escape ("none" if none)

sessionVars == <<mem, disk, current_session, op, arg, ret, exc>>

batchVars == <<mode, targets, max_concurrent, delay, task, semaphore, stats,
               batch, valid_results, progress_calls, stats_before, out_of_order>>

poolVars == <<proxies, enabled, max_failures, rotation_strategy, failures,
              current_index, poolOp, poolArg, poolRet, did_reset, only_reports>>

resolveVars == <<resolver, systems, rUrl, rRet>>

probeVars == <<probeOp, probeArg, probeRet>>

scanVars == <<driver, scanTotal, scanPc, scanI, is_paused, stop_flag,
              pause_event, guiPc, nsent, delivered>>

cleanVars == <<save_dir, today, cleanOp, cleanArg, cleanExc>>

vars == <<sessionVars, batchVars, poolVars, resolveVars, probeVars, scanVars, cleanVars>>

(***************************************************************************)
(* Bounds of the model.                                                    *)
(***************************************************************************)
MaxTargets == 3
MaxBatch == 3
MaxConcurrent == 2
MaxAdds == 2
StoreMaxTargets == 1
StoreMaxAdds == 1
MaxProxies == 2
MaxFailureLimit == 2
MaxCursor == 3
MaxSystems == 3
MaxScan == 3
MaxFiles == 2
MaxDay == 3

(***************************************************************************)
(* LoginStatus / LoginResult / TargetInfo  (async_verifier.py)             *)
(***************************************************************************)
LoginStatus ==
    {"SUCCESS", "PASSWORD_ERROR", "USERNAME_ERROR", "CAPTCHA_ERROR",
     "CAPTCHA_REQUIRED", "CONNECTION_ERROR", "TIMEOUT_ERROR", "UNKNOWN_ERROR"}

\* The statuses the verifiers produce (verify_login / _verify_sync).
ProducedStatus ==
    {"SUCCESS", "PASSWORD_ERROR", "CONNECTION_ERROR", "TIMEOUT_ERROR", "UNKNOWN_ERROR"}

\* Enum member -> its value, the string written to the session file.
\* (ASCII stand-ins for the Chinese value strings of the enum.)
StatusValue(s) ==
    CASE s = "SUCCESS"          -> "denglu chenggong"
      [] s = "PASSWORD_ERROR"   -> "mima cuowu"
      [] s = "USERNAME_ERROR"   -> "yonghuming cuowu"
      [] s = "CAPTCHA_ERROR"    -> "yanzhengma cuowu"
      [] s = "CAPTCHA_REQUIRED" -> "xuyao yanzhengma"
      [] s = "CONNECTION_ERROR" -> "lianjie cuowu"
      [] s = "TIMEOUT_ERROR"    -> "chaoshi cuowu"
      [] s = "UNKNOWN_ERROR"    -> "weizhi cuowu"

\* LoginStatus(value): the member with that value.
StatusOfValue(v) == CHOOSE s \in LoginStatus : StatusValue(s) = v

\* The two TargetInfo classes a target list can hold: the one progress_manager
\* imports (no to_dict, no source_file) and the batch importer's (with both).
TargetClasses == {"async_verifier", "enhanced_batch_importer"}

\* How the caller numbered TargetInfo.index: the dataclass default (0 for
\* all), the list position, or position + 1 (as the module's own test block).
IndexSchemes == {"default", "position", "one_based"}

IndexOf(scheme, p) ==
    CASE scheme = "default"   -> 0
      [] scheme = "position"  -> p
      [] scheme = "one_based" -> p + 1

TargetInfo(p, scheme, cls) ==
    [url |-> p, username |-> p, password |-> p, index |-> IndexOf(scheme, p),
     cls |-> cls]

TargetList(n, scheme, cls) == [i \in 1..n |-> TargetInfo(i - 1, scheme, cls)]

\* A LoginResult for the target at position p; success is set as the
\* verifiers set it, final_url and page_changed as every result built
\* without a response has them.  A LoginResult has no `target` attribute.
LoginResult(status, p) ==
    [status |-> status, success |-> (status = "SUCCESS"), url |-> p,
     final_url |-> p, page_changed |-> FALSE]

(***************************************************************************)
(* ScanSession  (progress_manager.py)                                      *)
(***************************************************************************)
NoSession == [none |-> TRUE]

\* stats starts as the empty dict.
EmptyStats == [total |-> -1, completed |-> -1, remaining |-> -1,
               success |-> -1, failed |-> -1, errors |-> -1]

RequiredFields == {"session_id", "created_at", "updated_at", "targets"}

\* ScanSession(**kwargs) with __post_init__: a TypeError when a field
\* without a default is not supplied; a falsy session_id is generated.
ScanSession(supplied, tgts) ==
    IF ~(RequiredFields \subseteq supplied)
    THEN [err |-> "TypeError"]
    ELSE [err |-> "none",
          val |-> [session_id |-> "scan_1", targets |-> tgts,
                   completed_indices |-> << >>, results |-> << >>,
                   stats |-> EmptyStats]]

Count(seq, P(_)) == Cardinality({i \in DOMAIN seq : P(seq[i])})

ErrorStatuses == {"CONNECTION_ERROR", "TIMEOUT_ERROR", "UNKNOWN_ERROR"}

_update_stats(s) ==
    [s EXCEPT !.stats =
        [total     |-> Len(s.targets),
         completed |-> Len(s.completed_indices),
         remaining |-> Len(s.targets) - Len(s.completed_indices),
         success   |-> Count(s.results, LAMBDA r : r.success),
         failed    |-> Count(s.results,
                         LAMBDA r : ~r.success /\ r.status # "UNKNOWN_ERROR"),
         errors    |-> Count(s.results, LAMBDA r : r.status \in ErrorStatuses)]]

InList(x, seq) == \E i \in DOMAIN seq : seq[i] = x

\* hasattr(r, 'target') and hasattr(r.target, 'index') and r.target.index == index
MatchesIndex(r, index) ==
    /\ "target" \in DOMAIN r
    /\ "index" \in DOMAIN r.target
    /\ r.target.index = index

\* Mutant of add_result: the index is appended without the membership test.
add_result_always_append(s, index, result) ==
    _update_stats([s EXCEPT !.completed_indices = Append(@, index),
                            !.results = Append(@, result)])

add_result(s, index, result) ==
    LET ci == IF InList(index, s.completed_indices)
              THEN s.completed_indices
              ELSE Append(s.completed_indices, index)
        hits == {i \in DOMAIN s.results : MatchesIndex(s.results[i], index)}
        first == CHOOSE i \in hits : \A j \in hits : i <= j
        rs == IF hits # {}
              THEN [s.results EXCEPT ![first] = result]
              ELSE Append(s.results, result)
    IN _update_stats([s EXCEPT !.completed_indices = ci, !.results = rs])

RECURSIVE KeepPositions(_, _, _)
\* [t for i, t in enumerate(tgts) if i not in completed], from position p on
KeepPositions(tgts, p, completed) ==
    IF p >= Len(tgts) THEN << >>
    ELSE IF ~InList(p, completed)
         THEN <<tgts[p + 1]>> \o KeepPositions(tgts, p + 1, completed)
         ELSE KeepPositions(tgts, p + 1, completed)

\* Mutant of get_remaining_targets: filters on the targets' index field
\* instead of their list position.
get_remaining_targets_by_index_field(s) ==
    SelectSeq(s.targets, LAMBDA t : ~InList(t.index, s.completed_indices))

get_remaining_targets(s) == KeepPositions(s.targets, 0, s.completed_indices)

(***************************************************************************)
(* Return values                                                           *)
(***************************************************************************)
RetNone == [kind |-> "none"]
RetBool(b) == [kind |-> "bool", val |-> b]
RetSession(s) == [kind |-> "session", val |-> s]
RetList(l) == [kind |-> "list", val |-> l]

NoFile == [kind |-> "absent"]

NoArg == [fault |-> "none"]

\* The state of each subsystem before it is used.
\* No proxy reported.
NoReport == [idx |-> 0, success |-> FALSE]

SessionIdle ==
    /\ mem = NoSession
    /\ disk = NoFile
    /\ current_session = RetNone
    /\ op = "init"
    /\ arg = NoArg
    /\ ret = RetNone
    /\ exc = "none"

ZeroStats == [total |-> 0, success |-> 0, failed |-> 0, errors |-> 0]

BatchIdle ==
    /\ mode = "sync"
    /\ targets = << >>
    /\ max_concurrent = 1
    /\ delay = 0
    /\ task = << >>
    /\ semaphore = 0
    /\ stats = ZeroStats
    /\ batch = "returned"
    /\ valid_results = << >>
    /\ progress_calls = << >>
    /\ stats_before = stats
    /\ out_of_order = FALSE

PoolIdle ==
    /\ proxies = << >>
    /\ enabled = FALSE
    /\ max_failures = 3
    /\ rotation_strategy = "round_robin"
    /\ failures = << >>
    /\ current_index = 0
    /\ poolOp = "init"
    /\ poolArg = NoReport
    /\ poolRet = RetNone
    /\ did_reset = FALSE
    /\ only_reports = FALSE

\* get_system_config not called yet.
NoLookup == [kind |-> "init", id |-> "", patterns |-> << >>, builtin |-> FALSE]

ResolveIdle ==
    /\ resolver = "ConfigManager"
    /\ systems = << >>
    /\ rUrl = << >>
    /\ rRet = NoLookup

Message(kind, text, num) == [kind |-> kind, text |-> text, num |-> num]

NoMessage == Message("", "", 0)

Indicator(type, text, num) == [type |-> type, text |-> text, num |-> num]

\* A response body: the marker strings that occur in it, its length, and
\* what json.loads makes of it ("dict" with or without a Message key, or
\* "invalid" when it raises).
Content(tokens, len, json, msg) ==
    [tokens |-> tokens, len |-> len, json |-> json, Message |-> msg]

NoProbe ==
    [failure_indicators |-> << >>, success_indicators |-> << >>,
     status_code |-> 0, content |-> Content({}, 0, "invalid", ""), exc |-> "none"]

NoVerdict == [status |-> "", success |-> FALSE, message |-> NoMessage]

ProbeIdle ==
    /\ probeOp = "idle"
    /\ probeArg = NoProbe
    /\ probeRet = NoVerdict

\* WeakpassScannerCore.__init__: no scan running.
ScanIdle ==
    /\ driver = "scanner_core"
    /\ scanTotal = 0
    /\ scanPc = "done"
    /\ scanI = 0
    /\ is_paused = FALSE
    /\ stop_flag = FALSE
    /\ pause_event = TRUE
    /\ guiPc = "idle"
    /\ nsent = 0
    /\ delivered = 0

\* An empty save_dir.
NoCleanup == [max_age_days |-> 0, fault |-> << >>, found |-> << >>]

CleanIdle ==
    /\ save_dir = << >>
    /\ today = 0
    /\ cleanOp = "init"
    /\ cleanArg = NoCleanup
    /\ cleanExc = "none"

SessionInit == SessionIdle /\ BatchIdle /\ PoolIdle /\ ResolveIdle /\ ProbeIdle /\ ScanIdle /\ CleanIdle

(***************************************************************************)
(* In-memory session operations.                                           *)
(***************************************************************************)
\* The caller constructs a ScanSession with every field given (as from_dict
\* does), session_id falsy so that one is generated.
NewSession(n, scheme, cls) ==
    /\ mem = NoSession
    /\ LET s == ScanSession({"session_id", "created_at", "updated_at", "targets", "config"},
                            TargetList(n, scheme, cls))
       IN mem' = s.val
    /\ op' = "ScanSession"
    /\ arg' = NoArg
    /\ ret' = RetNone
    /\ exc' = "none"
    /\ UNCHANGED <<disk, current_session, batchVars, poolVars, resolveVars, probeVars, scanVars, cleanVars>>

AddResult(index, status, maxAdds) ==
    /\ mem # NoSession
    /\ Len(mem.results) < maxAdds
    /\ index < Len(mem.targets)
    /\ mem' = add_result(mem, index, LoginResult(status, index))
    /\ op' = "add_result"
    /\ arg' = [fault |-> "none", index |-> index]
    /\ ret' = RetNone
    /\ exc' = "none"
    /\ UNCHANGED <<disk, current_session, batchVars, poolVars, resolveVars, probeVars, scanVars, cleanVars>>

GetRemainingTargets ==
    /\ mem # NoSession
    /\ op' = "get_remaining_targets"
    /\ arg' = NoArg
    /\ ret' = RetList(get_remaining_targets(mem))
    /\ exc' = "none"
    /\ UNCHANGED <<mem, disk, current_session, batchVars, poolVars, resolveVars, probeVars, scanVars, cleanVars>>

SessionNext ==
    \/ \E n \in 0..MaxTargets, scheme \in IndexSchemes :
          NewSession(n, scheme, "async_verifier")
    \/ \E index \in 0..(MaxTargets - 1), status \in ProducedStatus :
          AddResult(index, status, MaxAdds)
    \/ GetRemainingTargets

SpecSession == SessionInit /\ [][SessionNext]_vars

(***************************************************************************)
(* Claims about the in-memory session (checked under SpecSession).         *)
(***************************************************************************)
SetOf(seq) == {seq[i] : i \in DOMAIN seq}

\* The sequence that lists, in list order, the targets at the positions `keep`.
IsSelection(R, T, keep) ==
    /\ Len(R) = Cardinality(keep)
    /\ \A p \in keep : R[Cardinality({q \in keep : q < p}) + 1] = T[p + 1]

\* C3 (as amended): get_remaining_targets() returns exactly the targets whose
\* 0-based position in session.targets is not in completed_indices, in the
\* original list order, whatever the targets' index fields hold.
C3_RemainingByPosition ==
    op = "get_remaining_targets" =>
        IsSelection(ret.val, mem.targets,
                    {p \in 0..(Len(mem.targets) - 1) :
                        p \notin SetOf(mem.completed_indices)})

\* C3 witness: 3 targets, add_result for indices 0 and 2, one target left:
\* the one at position 1.
C3_Witness ==
    /\ op = "get_remaining_targets"
    /\ Len(mem.targets) = 3
    /\ SetOf(mem.completed_indices) = {0, 2}
    /\ ret.val = <<mem.targets[2]>>

\* C3 (as stated): get_remaining_targets() returns exactly the targets t whose
\* t.index is not in completed_indices, in the original list order.
C3_RemainingByIndexField ==
    op = "get_remaining_targets" =>
        IsSelection(ret.val, mem.targets,
                    {p \in 0..(Len(mem.targets) - 1) :
                        mem.targets[p + 1].index \notin SetOf(mem.completed_indices)})

\* C4 (as stated): the results list holds at most one result per target
\* index, so it is never longer than completed_indices.
C4_OneResultPerIndex ==
    mem # NoSession =>
        /\ Len(mem.results) <= Len(mem.completed_indices)
        /\ \A i, j \in DOMAIN mem.results :
              mem.results[i].url = mem.results[j].url => i = j

\* C5 (as stated): after add_result the stats partition the results: success
\* counts the successes, errors the three error statuses, failed the rest,
\* and the three add up to the number of results.
C5_StatsPartition ==
    op = "add_result" =>
        /\ mem.stats.success = Count(mem.results, LAMBDA r : r.success)
        /\ mem.stats.errors =
              Count(mem.results, LAMBDA r : r.status \in ErrorStatuses)
        /\ mem.stats.failed =
              Count(mem.results,
                    LAMBDA r : ~r.success /\ r.status \notin ErrorStatuses)
        /\ mem.stats.success + mem.stats.failed + mem.stats.errors
              = Len(mem.results)

\* C21: add_result is idempotent on completed_indices: after any sequence of
\* add_result calls no index occurs twice in completed_indices, and an
\* add_result for an index that is already recorded leaves completed_indices
\* and stats.completed as they were.
C21_AddResultIdempotent ==
    [][op' = "add_result" =>
          /\ \A i, j \in DOMAIN mem'.completed_indices :
                mem'.completed_indices[i] = mem'.completed_indices[j] => i = j
          /\ InList(arg'.index, mem.completed_indices) =>
                /\ mem'.completed_indices = mem.completed_indices
                /\ mem'.stats.completed = mem.stats.completed]_vars

\* C21 witness: add_result was called twice for index 1 of three targets (two
\* results are held) and completed_indices holds the index once.
C21_Witness ==
    /\ op = "add_result"
    /\ arg.index = 1
    /\ Len(mem.targets) = 3
    /\ Len(mem.results) = 2
    /\ mem.completed_indices = <<1>>
    /\ mem.stats.completed = 1

(***************************************************************************)
(* Persistence: to_dict / from_dict and the ProgressManager operations.    *)
(***************************************************************************)
\* TargetInfo.to_dict of the batch importer; extra and source_file are
\* omitted when falsy.  async_verifier.TargetInfo has no to_dict.
TargetToDict(t) ==
    [url |-> t.url, username |-> t.username, password |-> t.password,
     index |-> t.index]

ResultToDict(r) ==
    [status |-> StatusValue(r.status), success |-> r.success, url |-> r.url]

\* ScanSession.to_dict: AttributeError when a target has no to_dict.
to_dict(s) ==
    IF \E i \in DOMAIN s.targets : s.targets[i].cls = "async_verifier"
    THEN [err |-> "AttributeError"]
    ELSE [err |-> "none",
          val |-> [session_id |-> s.session_id,
                   targets |-> [i \in DOMAIN s.targets |-> TargetToDict(s.targets[i])],
                   completed_indices |-> s.completed_indices,
                   results |-> [i \in DOMAIN s.results |-> ResultToDict(s.results[i])],
                   stats |-> s.stats]]

\* ScanSession.from_dict: every target is rebuilt as
\* TargetInfo(..., source_file=...), a keyword async_verifier.TargetInfo
\* does not take: TypeError as soon as the document holds a target.
from_dict(data) ==
    IF Len(data.targets) > 0
    THEN [err |-> "TypeError"]
    ELSE LET made == ScanSession({"session_id", "created_at", "updated_at",
                                  "targets", "completed_indices", "results",
                                  "config", "stats"}, << >>)
         IN [err |-> "none",
             val |-> [made.val EXCEPT
                        !.session_id = data.session_id,
                        !.completed_indices = data.completed_indices,
                        !.results = [i \in DOMAIN data.results |->
                                       [status |-> StatusOfValue(data.results[i].status),
                                        success |-> data.results[i].success,
                                        url |-> data.results[i].url]],
                        !.stats = data.stats]]

\* File contents: absent; empty (truncated by open(..., 'w')); partial (a
\* prefix of a document); json (a whole document).
JsonFile(doc) == [kind |-> "json", doc |-> doc]
EmptyFile == [kind |-> "empty"]
PartialFile == [kind |-> "partial"]

Faults == {"none", "open", "write"}

\* The body of load_session: what it returns and what current_session becomes.
load_session(file, cur, fault) ==
    IF file.kind = "absent" THEN [ret |-> RetNone, cur |-> cur]
    ELSE IF fault = "open" \/ file.kind # "json" THEN [ret |-> RetNone, cur |-> cur]
    ELSE LET s == from_dict(file.doc)
         IN IF s.err # "none" THEN [ret |-> RetNone, cur |-> cur]
            ELSE [ret |-> RetSession(s.val), cur |-> RetSession(s.val)]

\* create_session: ScanSession(targets=targets, config=config or {}).
CreateSession(n, cls) ==
    /\ LET s == ScanSession({"targets", "config"}, TargetList(n, "position", cls))
       IN IF s.err # "none"
          THEN /\ exc' = s.err
               /\ ret' = RetNone
               /\ current_session' = current_session
          ELSE /\ exc' = "none"
               /\ ret' = RetSession(s.val)
               /\ current_session' = RetSession(s.val)
    /\ op' = "create_session"
    /\ arg' = [fault |-> "none", targets |-> TargetList(n, "position", cls)]
    /\ UNCHANGED <<mem, disk, batchVars, poolVars, resolveVars, probeVars, scanVars, cleanVars>>

\* save_session(session): `passed` says whether the caller passes its
\* session or leaves the default (current_session).
SaveSession(passed, fault) ==
    /\ passed => mem # NoSession
    /\ LET session == IF passed THEN RetSession(mem) ELSE current_session
       IN IF session.kind = "none"
          THEN /\ ret' = RetBool(FALSE)
               /\ disk' = disk
          ELSE IF fault = "open"
          THEN /\ ret' = RetBool(FALSE)
               /\ disk' = disk
          ELSE LET d == to_dict(session.val)
               IN IF d.err # "none"
                  THEN /\ ret' = RetBool(FALSE)
                       /\ disk' = EmptyFile
                  ELSE IF fault = "write"
                  THEN /\ ret' = RetBool(FALSE)
                       /\ disk' = PartialFile
                  ELSE /\ ret' = RetBool(TRUE)
                       /\ disk' = JsonFile(d.val)
    /\ op' = "save_session"
    /\ arg' = [fault |-> fault, passed |-> passed]
    /\ exc' = "none"
    /\ UNCHANGED <<mem, current_session, batchVars, poolVars, resolveVars, probeVars, scanVars, cleanVars>>

LoadSession(fault) ==
    /\ fault # "write"
    /\ LET l == load_session(disk, current_session, fault)
       IN /\ ret' = l.ret
          /\ current_session' = l.cur
    /\ op' = "load_session"
    /\ arg' = [fault |-> fault]
    /\ exc' = "none"
    /\ UNCHANGED <<mem, disk, batchVars, poolVars, resolveVars, probeVars, scanVars, cleanVars>>

DeleteSession(fault) ==
    /\ fault # "open"
    /\ IF disk.kind = "absent" \/ fault = "write"
       THEN /\ ret' = RetBool(FALSE)
            /\ disk' = disk
       ELSE /\ ret' = RetBool(TRUE)
            /\ disk' = NoFile
    /\ op' = "delete_session"
    /\ arg' = [fault |-> fault]
    /\ exc' = "none"
    /\ UNCHANGED <<mem, current_session, batchVars, poolVars, resolveVars, probeVars, scanVars, cleanVars>>

ExportFormats == {"csv", "json", "xml"}

\* What export_results returned, and the data rows it wrote to output_file.
RetExport(b, rows) == [kind |-> "bool", val |-> b, rows |-> rows]

\* The target columns of a row that has no target: '' and ''.
NoTargetColumn == -1

\* The csv branch's loop: for i, result in enumerate(session.results), with
\* target = session.targets[i] if i < len(session.targets) else None.
csv_rows(s) ==
    [i \in DOMAIN s.results |->
        [no       |-> i,
         url      |-> s.results[i].url,
         username |-> IF i <= Len(s.targets) THEN s.targets[i].username
                      ELSE NoTargetColumn,
         password |-> IF i <= Len(s.targets) THEN s.targets[i].password
                      ELSE NoTargetColumn,
         status   |-> StatusValue(s.results[i].status),
         success  |-> s.results[i].success]]

\* export_results: load_session first (which replaces current_session), then
\* the output file is written; `fault` is the fault of that write.
ExportResults(format, fault) ==
    /\ LET l == load_session(disk, current_session, "none")
       IN /\ current_session' = l.cur
          /\ IF l.ret.kind = "none" THEN ret' = RetExport(FALSE, << >>)
             ELSE IF format \notin {"csv", "json"} THEN ret' = RetExport(FALSE, << >>)
             ELSE IF fault # "none" THEN ret' = RetExport(FALSE, << >>)
             ELSE IF format = "json" /\ to_dict(l.ret.val).err # "none"
                  THEN ret' = RetExport(FALSE, << >>)
             ELSE IF format = "json" THEN ret' = RetExport(TRUE, << >>)
             ELSE ret' = RetExport(TRUE, csv_rows(l.ret.val))
    /\ op' = "export_results"
    /\ arg' = [fault |-> fault, format |-> format]
    /\ exc' = "none"
    /\ UNCHANGED <<mem, disk, batchVars, poolVars, resolveVars, probeVars, scanVars, cleanVars>>

StoreStatuses == {"SUCCESS", "CONNECTION_ERROR"}

StoreNext ==
    \/ \E n \in 0..StoreMaxTargets, cls \in TargetClasses :
          NewSession(n, "position", cls)
    \/ \E index \in 0..(StoreMaxTargets - 1), status \in StoreStatuses :
          AddResult(index, status, StoreMaxAdds)
    \/ \E n \in 0..StoreMaxTargets, cls \in TargetClasses : CreateSession(n, cls)
    \/ \E passed \in BOOLEAN, fault \in Faults : SaveSession(passed, fault)
    \/ \E fault \in Faults : LoadSession(fault)
    \/ \E fault \in Faults : DeleteSession(fault)
    \/ \E format \in ExportFormats, fault \in Faults : ExportResults(format, fault)

SpecStore == SessionInit /\ [][StoreNext]_vars

(***************************************************************************)
(* Claims about the session store (checked under SpecStore).               *)
(***************************************************************************)
\* An operation failed: it returned False or None.
Failed(r) == r.kind = "none" \/ (r.kind = "bool" /\ ~r.val)

\* C6 (as stated): with no I/O fault, save(session) succeeds and a following
\* load returns a session with equal targets, completedIndices and stats.
C6_SaveLoadRoundTrip ==
    (op = "save_session" /\ arg.passed /\ arg.fault = "none") =>
        /\ ~Failed(ret)
        /\ LET l == load_session(disk, current_session, "none").ret
           IN /\ l.kind = "session"
              /\ Len(l.val.targets) = Len(mem.targets)
              /\ \A i \in DOMAIN mem.targets :
                    /\ l.val.targets[i].url = mem.targets[i].url
                    /\ l.val.targets[i].username = mem.targets[i].username
                    /\ l.val.targets[i].password = mem.targets[i].password
                    /\ l.val.targets[i].index = mem.targets[i].index
              /\ l.val.completed_indices = mem.completed_indices
              /\ l.val.stats = mem.stats

\* C7 (as stated): a save that fails leaves a previously saved session file
\* intact.
C7_FailedSaveKeepsFile ==
    [][(op' = "save_session" /\ Failed(ret') /\ disk.kind = "json")
          => disk' = disk]_vars

StoreOps == {"save_session", "load_session", "delete_session", "export_results"}

\* C8 (as stated): no store operation lets an error escape, and an operation
\* that fails (returns false / none) leaves current_session unchanged.
C8_FailureLeavesCurrentSession ==
    [][op' \in StoreOps =>
          /\ exc' = "none"
          /\ (Failed(ret') => current_session' = current_session)]_vars

\* C9 (as stated): create(targets, config) does not fail and returns a new
\* session with the given targets, a non-empty id, nothing completed, no
\* results, which becomes the current session.
C9_CreateReturnsSession ==
    op = "create_session" =>
        /\ exc = "none"
        /\ ret.kind = "session"
        /\ ret.val.targets = arg.targets
        /\ ret.val.session_id # ""
        /\ ret.val.completed_indices = << >>
        /\ ret.val.results = << >>
        /\ current_session = ret

RowsOfSessionByTargetIndex ==
    mem # NoSession =>
        \A k \in DOMAIN mem.results :
            LET row == csv_rows(mem)[k]
            IN row.username = mem.targets[row.url + 1].username

(***************************************************************************)
(* The batch executor: verify_batch (async_verifier.py),                   *)
(* verify_batch_async and verify_batch_sync (unified_verifier.py).         *)
(***************************************************************************)
\* What can happen to one probe's request.
Outcomes == {"accepted", "rejected", "timeout", "client_error", "exception"}

\* str(response.url) of a response: an accepted login is answered from
\* another page than the one requested, a rejected one from the login page.
ResponseUrl(target, outcome) ==
    IF outcome = "accepted" THEN target.url + MaxBatch + 1 ELSE target.url

\* Mutant of verify_login: an error result keeps the success flag of the
\* response check that ran before the error.
verify_login_error_keeps_success(target, outcome) ==
    [LoginResult(CASE outcome = "accepted"     -> "SUCCESS"
                   [] outcome = "rejected"     -> "PASSWORD_ERROR"
                   [] outcome = "timeout"      -> "TIMEOUT_ERROR"
                   [] outcome = "client_error" -> "CONNECTION_ERROR"
                   [] outcome = "exception"    -> "UNKNOWN_ERROR",
                 target.url)
       EXCEPT !.success = (outcome \in {"accepted", "exception"})]

\* verify_login / _verify_async / _verify_sync: every outcome is mapped to a
\* LoginResult; no exception leaves the function.  A result built from a
\* response carries the response's url; an error result the target's.
verify_login(target, outcome) ==
    [LoginResult(CASE outcome = "accepted"     -> "SUCCESS"
                   [] outcome = "rejected"     -> "PASSWORD_ERROR"
                   [] outcome = "timeout"      -> "TIMEOUT_ERROR"
                   [] outcome = "client_error" -> "CONNECTION_ERROR"
                   [] outcome = "exception"    -> "UNKNOWN_ERROR",
                 target.url)
       EXCEPT !.final_url = IF outcome \in {"accepted", "rejected"}
                            THEN ResponseUrl(target, outcome) ELSE target.url,
              !.page_changed = IF outcome \in {"accepted", "rejected"}
                               THEN ResponseUrl(target, outcome) # target.url
                               ELSE FALSE]

\* Mutant of update_stats: an error result is counted in `total` only.
update_stats_errors_uncounted(st, result) ==
    LET counted == [st EXCEPT !.total = @ + 1]
    IN IF result.success THEN [counted EXCEPT !.success = @ + 1]
       ELSE IF result.status \in ErrorStatuses THEN counted
       ELSE [counted EXCEPT !.failed = @ + 1]

\* The statistics update after a probe.
update_stats(st, result) ==
    LET counted == [st EXCEPT !.total = @ + 1]
    IN IF result.success THEN [counted EXCEPT !.success = @ + 1]
       ELSE IF result.status \in ErrorStatuses THEN [counted EXCEPT !.errors = @ + 1]
       ELSE [counted EXCEPT !.failed = @ + 1]

NoResult == [none |-> TRUE]

\* The verifier's stats when a batch starts: those of a new verifier, or
\* those an earlier batch of one successful probe on the same verifier left
\* (verify_batch does not reset them).
StatsBefore ==
    {ZeroStats, [total |-> 1, success |-> 1, failed |-> 0, errors |-> 0]}

\* Mutant of CanAcquire: the semaphore never blocks.
CanAcquireAlways(permits) == TRUE

\* `async with semaphore` proceeds only while a permit is left.
CanAcquire(permits) == permits > 0

BatchInit ==
    /\ SessionIdle
    /\ CleanIdle
    /\ ScanIdle
    /\ ProbeIdle
    /\ ResolveIdle
    /\ PoolIdle
    /\ mode \in {"async", "sync"}
    /\ \E n \in 0..MaxBatch :
          /\ targets = TargetList(n, "position", "async_verifier")
          /\ task = [i \in 1..n |-> [pc |-> "created", result |-> NoResult]]
    /\ max_concurrent \in 1..MaxConcurrent
    /\ delay \in {0, 1}
    /\ semaphore = IF mode = "async" THEN max_concurrent ELSE 0
    /\ stats \in StatsBefore
    /\ batch = "running"
    /\ valid_results = << >>
    /\ progress_calls = << >>
    /\ stats_before = stats
    /\ out_of_order = FALSE

\* A task enters `async with semaphore` and sends its request.
Acquire(i) ==
    /\ mode = "async"
    /\ batch = "running"
    /\ task[i].pc = "created"
    /\ CanAcquire(semaphore)
    /\ semaphore' = semaphore - 1
    /\ task' = [task EXCEPT ![i].pc = "sending"]
    /\ UNCHANGED <<mode, targets, max_concurrent, delay, stats, batch, valid_results,
                   progress_calls, stats_before, out_of_order>>
    /\ UNCHANGED <<sessionVars, poolVars, resolveVars, probeVars, scanVars, cleanVars>>

\* verify_login returns; stats are updated and the callbacks run, all without
\* an await in between.  A raising callback ends the task with that
\* exception (the semaphore is released by `async with`); otherwise the task
\* sleeps for the delay, or returns at once when delay is 0.
Respond(i, outcome, cbRaises) ==
    /\ mode = "async"
    /\ batch = "running"
    /\ task[i].pc = "sending"
    /\ LET result == verify_login(targets[i], outcome)
       IN /\ stats' = update_stats(stats, result)
          /\ progress_calls' =
                Append(progress_calls, [count |-> stats'.total, total |-> Len(targets)])
          /\ IF cbRaises
             THEN /\ task' = [task EXCEPT ![i] = [pc |-> "raised", result |-> NoResult]]
                  /\ semaphore' = semaphore + 1
             ELSE IF delay > 0
             THEN /\ task' = [task EXCEPT ![i] = [pc |-> "sleeping", result |-> result]]
                  /\ semaphore' = semaphore
             ELSE /\ task' = [task EXCEPT ![i] = [pc |-> "returned", result |-> result]]
                  /\ semaphore' = semaphore + 1
    /\ out_of_order' =
          (out_of_order \/ \E j \in 1..(i - 1) : task[j].pc \in {"created", "sending"})
    /\ UNCHANGED <<mode, targets, max_concurrent, delay, batch, valid_results,
                   stats_before>>
    /\ UNCHANGED <<sessionVars, poolVars, resolveVars, probeVars, scanVars, cleanVars>>

\* asyncio.sleep(delay) is over: the task leaves `async with` and returns.
Wake(i) ==
    /\ mode = "async"
    /\ batch = "running"
    /\ task[i].pc = "sleeping"
    /\ task' = [task EXCEPT ![i].pc = "returned"]
    /\ semaphore' = semaphore + 1
    /\ UNCHANGED <<mode, targets, max_concurrent, delay, stats, batch, valid_results,
                   progress_calls, stats_before, out_of_order>>
    /\ UNCHANGED <<sessionVars, poolVars, resolveVars, probeVars, scanVars, cleanVars>>

\* Mutant of valid_result: the result made from an exception is built for
\* the first target of the batch.
valid_result_for_first_target(i) ==
    IF task[i].pc = "raised"
    THEN LoginResult("UNKNOWN_ERROR", targets[1].url)
    ELSE task[i].result

\* The entry of valid_results for results[i] of gather: the task's result,
\* or an UNKNOWN_ERROR result for targets[i] when it is an exception.
valid_result(i) ==
    IF task[i].pc = "raised"
    THEN LoginResult("UNKNOWN_ERROR", targets[i].url)
    ELSE task[i].result

\* gather(*tasks, return_exceptions=True) completes; an exception in the
\* list is replaced by an UNKNOWN_ERROR result for targets[i].
Gather ==
    /\ mode = "async"
    /\ batch = "running"
    /\ \A i \in DOMAIN task : task[i].pc \in {"returned", "raised"}
    /\ valid_results' = [i \in DOMAIN task |-> valid_result(i)]
    /\ batch' = "returned"
    /\ UNCHANGED <<mode, targets, max_concurrent, delay, task, semaphore, stats,
                   progress_calls, stats_before, out_of_order>>
    /\ UNCHANGED <<sessionVars, poolVars, resolveVars, probeVars, scanVars, cleanVars>>

\* One iteration of verify_batch_sync's loop, for the first target not yet
\* probed.  Nothing catches a raising callback: it ends verify_batch_sync.
\* With a delay the loop sleeps before the next iteration, except after the
\* last target.
SyncProbe(outcome, cbRaises) ==
    /\ mode = "sync"
    /\ batch = "running"
    /\ \E i \in DOMAIN task :
          /\ task[i].pc = "created"
          /\ \A j \in 1..(i - 1) : task[j].pc = "returned"
          /\ LET result == verify_login(targets[i], outcome)
             IN /\ stats' = update_stats(stats, result)
                /\ progress_calls' =
                      Append(progress_calls, [count |-> i, total |-> Len(targets)])
                /\ IF cbRaises
                   THEN /\ task' = [task EXCEPT ![i] = [pc |-> "raised", result |-> NoResult]]
                        /\ batch' = "raised"
                   ELSE IF delay > 0 /\ i < Len(targets)
                   THEN /\ task' = [task EXCEPT ![i] = [pc |-> "sleeping", result |-> result]]
                        /\ batch' = batch
                   ELSE /\ task' = [task EXCEPT ![i] = [pc |-> "returned", result |-> result]]
                        /\ batch' = batch
    /\ UNCHANGED <<mode, targets, max_concurrent, delay, semaphore, valid_results,
                   stats_before, out_of_order>>
    /\ UNCHANGED <<sessionVars, poolVars, resolveVars, probeVars, scanVars, cleanVars>>

\* time.sleep(delay) is over: the result is appended and the loop goes on.
SyncWake(i) ==
    /\ mode = "sync"
    /\ batch = "running"
    /\ task[i].pc = "sleeping"
    /\ task' = [task EXCEPT ![i].pc = "returned"]
    /\ UNCHANGED <<mode, targets, max_concurrent, delay, semaphore, stats, batch,
                   valid_results, progress_calls, stats_before, out_of_order>>
    /\ UNCHANGED <<sessionVars, poolVars, resolveVars, probeVars, scanVars, cleanVars>>

\* The loop is over: verify_batch_sync returns its results list.
SyncReturn ==
    /\ mode = "sync"
    /\ batch = "running"
    /\ \A i \in DOMAIN task : task[i].pc = "returned"
    /\ valid_results' = [i \in DOMAIN task |-> task[i].result]
    /\ batch' = "returned"
    /\ UNCHANGED <<mode, targets, max_concurrent, delay, task, semaphore, stats,
                   progress_calls, stats_before, out_of_order>>
    /\ UNCHANGED <<sessionVars, poolVars, resolveVars, probeVars, scanVars, cleanVars>>

BatchNext ==
    \/ \E i \in DOMAIN task : Acquire(i)
    \/ \E i \in DOMAIN task, outcome \in Outcomes, cbRaises \in BOOLEAN :
          Respond(i, outcome, cbRaises)
    \/ \E i \in DOMAIN task : Wake(i)
    \/ Gather
    \/ \E outcome \in Outcomes, cbRaises \in BOOLEAN : SyncProbe(outcome, cbRaises)
    \/ \E i \in DOMAIN task : SyncWake(i)
    \/ SyncReturn

SpecBatch == BatchInit /\ [][BatchNext]_vars

(***************************************************************************)
(* Claims about the batch executor (checked under SpecBatch).              *)
(***************************************************************************)
\* C1 (as stated): a batch over N targets, async or sync, ends by returning
\* exactly N results, the i-th for targets[i], whatever probes time out, fail
\* or raise; a task that ended with an exception yields UNKNOWN_ERROR and
\* every other task's result is returned as it was.
C1_BatchReturnsNResults ==
    batch # "running" =>
        /\ batch = "returned"
        /\ Len(valid_results) = Len(targets)
        /\ \A i \in DOMAIN targets :
              /\ valid_results[i].url = targets[i].url
              /\ task[i].pc = "raised" => valid_results[i].status = "UNKNOWN_ERROR"
              /\ task[i].pc = "returned" => valid_results[i] = task[i].result

\* The probes that hold a concurrency slot: request sent, per-probe section
\* (stats, callbacks, delay) not yet finished.
InFlight == {i \in DOMAIN task : task[i].pc \in {"sending", "sleeping"}}

\* C2: in an async batch at most max_concurrent probes are in flight.
C2_AtMostCInFlight ==
    mode = "async" => Cardinality(InFlight) <= max_concurrent

\* C2 witness: every slot is taken, one task is sleeping out its delay, and
\* another task is still waiting for a slot.
C2_Witness ==
    /\ mode = "async"
    /\ Cardinality(InFlight) = max_concurrent
    /\ \E i \in DOMAIN task : task[i].pc = "sleeping"
    /\ \E i \in DOMAIN task : task[i].pc = "created"

\* The probes of this batch whose request has been answered.
Completed == {i \in DOMAIN task : task[i].pc \in {"sleeping", "returned", "raised"}}

\* C19 (as stated): in every batch over N targets, also one that is not the
\* first on its verifier, progress_callback has been called once per completed
\* probe, the k-th call with (k, N).
C19_ProgressCountsThisBatch ==
    /\ Len(progress_calls) = Cardinality(Completed)
    /\ \A k \in DOMAIN progress_calls :
          progress_calls[k] = [count |-> k, total |-> Len(targets)]

\* C20: whenever the stats can be observed they satisfy
\* total = success + failed + errors, and each completed probe has added one
\* to total and one to exactly one of success, failed, errors.
C20_StatsAtomicPerCompletion ==
    [][/\ stats'.total = stats'.success + stats'.failed + stats'.errors
       /\ IF Completed' # Completed
          THEN /\ stats'.total = stats.total + 1
               /\ stats'.success >= stats.success
               /\ stats'.failed >= stats.failed
               /\ stats'.errors >= stats.errors
               /\ Cardinality(Completed') = Cardinality(Completed) + 1
          ELSE stats' = stats]_vars

\* C20 witness: two probes were in flight together in an async batch and both
\* have completed, one of them with an error; each was counted once.
C20_Witness ==
    /\ mode = "async"
    /\ max_concurrent >= 2
    /\ Cardinality(Completed) = 2
    /\ \E i \in Completed : task[i].pc = "sleeping"
    /\ \E s0 \in StatsBefore : stats.total = s0.total + 2
    /\ stats.errors = 1
    /\ stats.total = stats.success + stats.failed + stats.errors

\* C23 (as stated): with a delay > 0, in both modes, a probe whose callbacks
\* did not raise is followed by the delay exactly when it is not the last
\* probe of the batch to complete.
C23_DelaySkippedAfterLast ==
    [][(delay > 0 /\ Completed' # Completed) =>
          \A i \in Completed' \ Completed :
              task'[i].pc # "raised" =>
                 (task'[i].pc = "sleeping" <=> Completed' # DOMAIN task)]_vars

\* The results the executor has produced so far: those of the tasks that
\* returned one, and the returned list.
Produced ==
    {task[i].result : i \in {j \in DOMAIN task : task[j].pc \in {"sleeping", "returned"}}}
       \cup {valid_results[i] : i \in DOMAIN valid_results}

\* C26: every result the executor produces, also one made from a task's
\* exception, has success = TRUE exactly when its status is SUCCESS, and an
\* error result has final_url = url and page_changed = FALSE.
C26_SuccessIffStatusSuccess ==
    \A r \in Produced :
        /\ r.success <=> (r.status = "SUCCESS")
        /\ r.status \in ErrorStatuses =>
              (r.final_url = r.url /\ r.page_changed = FALSE)

\* C26 witness: an async batch returned a list that holds a successful result
\* from a redirected response, an error result of verify_login, and a result
\* made from a task's exception.
C26_Witness ==
    /\ mode = "async"
    /\ batch = "returned"
    /\ \E i \in DOMAIN valid_results :
          valid_results[i].success /\ valid_results[i].page_changed
    /\ \E i \in DOMAIN valid_results :
          task[i].pc = "returned" /\ valid_results[i].status = "TIMEOUT_ERROR"
    /\ \E i \in DOMAIN valid_results :
          task[i].pc = "raised" /\ valid_results[i].status = "UNKNOWN_ERROR"

\* C27 (as stated): when a batch that started with zero stats has returned,
\* the stats agree with the returned list: total is its length, success the
\* number of its successful results, errors the number of its results with
\* an error status, also when a callback raised for some probe.
C27_StatsAgreeWithResults ==
    (batch = "returned" /\ stats_before = ZeroStats) =>
        /\ stats.total = Len(valid_results)
        /\ stats.success = Count(valid_results, LAMBDA r : r.success)
        /\ stats.errors = Count(valid_results, LAMBDA r : r.status \in ErrorStatuses)

\* C28: the list an async batch returns is in submission order: it has one
\* result per target and the i-th result is the one for targets[i], whatever
\* the order in which the probes completed and also for a result made from a
\* task's exception.
C28_ResultsInSubmissionOrder ==
    (mode = "async" /\ batch = "returned") =>
        /\ Len(valid_results) = Len(targets)
        /\ \A i \in DOMAIN targets : valid_results[i].url = targets[i].url

\* C28 witness: an async batch of three targets returned after a probe had
\* completed before one submitted earlier, and one task ended in an
\* exception.
C28_Witness ==
    /\ mode = "async"
    /\ batch = "returned"
    /\ Len(targets) = 3
    /\ out_of_order
    /\ \E i \in DOMAIN task : task[i].pc = "raised"
    /\ \A i \in DOMAIN targets : valid_results[i].url = targets[i].url

(***************************************************************************)
(* The proxy rotation pool: ProxyPool and ProxyManager (proxy_support.py). *)
(***************************************************************************)
ProxyInfo(host, port, proxy_type) ==
    [host |-> host, port |-> port, proxy_type |-> proxy_type]

\* The descriptors a caller adds; two of them share host and port.
ProxyChoices ==
    {ProxyInfo("h1", 8080, "http"), ProxyInfo("h1", 8080, "socks5"),
     ProxyInfo("h2", 8080, "http")}

Strategies == {"round_robin", "random", "least_used"}

\* self.failures.get(idx, 0) for the 0-based list position idx
FailuresOf(fs, idx) == fs[idx + 1]

\* Mutant of Available: the failure counters are not looked at.
AvailableUnfiltered(fs, maxf) == [i \in DOMAIN fs |-> i - 1]

\* [(idx, proxy) for idx, proxy in enumerate(proxies) if failures < max]:
\* the 0-based positions, in list order
Available(fs, maxf) ==
    SelectSeq([i \in DOMAIN fs |-> i - 1], LAMBDA idx : FailuresOf(fs, idx) < maxf)

AllPositions(fs) == [i \in DOMAIN fs |-> i - 1]

\* Mutant of reset_failures: the counters are left as they are.
reset_failures_noop(fs) == fs

reset_failures(fs) == [i \in DOMAIN fs |-> 0]

\* min(available, key=failures): the first position with the least count
LeastUsed(avail, fs) ==
    LET k == CHOOSE k \in DOMAIN avail :
                /\ \A j \in DOMAIN avail :
                      FailuresOf(fs, avail[k]) <= FailuresOf(fs, avail[j])
                /\ \A j \in 1..(k - 1) :
                      FailuresOf(fs, avail[j]) > FailuresOf(fs, avail[k])
    IN avail[k]

\* Mutant of get_proxy: round robin takes the first available proxy whatever
\* the cursor is.
get_proxy_first_available(pick) ==
    IF ~enabled \/ Len(proxies) = 0
    THEN [ret |-> RetNone, failures |-> failures, current_index |-> current_index,
          did_reset |-> FALSE]
    ELSE LET first == Available(failures, max_failures)
             reset == Len(first) = 0
             fs    == IF reset THEN reset_failures(failures) ELSE failures
             avail == IF reset THEN AllPositions(proxies) ELSE first
             idx   == CASE rotation_strategy = "random" ->
                              avail[(pick % Len(avail)) + 1]
                        [] rotation_strategy = "least_used" ->
                              LeastUsed(avail, fs)
                        [] OTHER ->
                              avail[1]
         IN [ret |-> [kind |-> "proxy", idx |-> idx, proxy |-> proxies[idx + 1]],
             failures |-> fs,
             current_index |-> IF rotation_strategy \in {"random", "least_used"}
                               THEN current_index ELSE current_index + 1,
             did_reset |-> reset]

\* get_proxy: `pick` stands for random.choice's draw.
get_proxy(pick) ==
    IF ~enabled \/ Len(proxies) = 0
    THEN [ret |-> RetNone, failures |-> failures, current_index |-> current_index,
          did_reset |-> FALSE]
    ELSE LET first == Available(failures, max_failures)
             reset == Len(first) = 0
             fs    == IF reset THEN reset_failures(failures) ELSE failures
             avail == IF reset THEN AllPositions(proxies) ELSE first
         IN IF Len(avail) = 0
            THEN [ret |-> RetNone, failures |-> fs, current_index |-> current_index,
                  did_reset |-> reset]
            ELSE LET idx == CASE rotation_strategy = "random" ->
                                   avail[(pick % Len(avail)) + 1]
                              [] rotation_strategy = "least_used" ->
                                   LeastUsed(avail, fs)
                              [] OTHER ->
                                   avail[(current_index % Len(avail)) + 1]
                 IN [ret |-> [kind |-> "proxy", idx |-> idx, proxy |-> proxies[idx + 1]],
                     failures |-> fs,
                     current_index |-> IF rotation_strategy \in {"random", "least_used"}
                                       THEN current_index ELSE current_index + 1,
                     did_reset |-> reset]

\* The first list position whose host and port equal the given proxy's.
Matching(proxy) ==
    {i \in DOMAIN proxies :
        proxies[i].host = proxy.host /\ proxies[i].port = proxy.port}

FirstMatching(proxy) == CHOOSE i \in Matching(proxy) : \A j \in Matching(proxy) : i <= j

mark_failure(proxy) ==
    IF Matching(proxy) = {} THEN failures
    ELSE [failures EXCEPT ![FirstMatching(proxy)] = @ + 1]

mark_success(proxy) ==
    IF Matching(proxy) = {} THEN failures
    ELSE [failures EXCEPT ![FirstMatching(proxy)] = 0]

PoolInit ==
    /\ SessionIdle
    /\ CleanIdle
    /\ ScanIdle
    /\ ProbeIdle
    /\ ResolveIdle
    /\ BatchIdle
    /\ proxies = << >>
    /\ failures = << >>
    /\ enabled = FALSE
    /\ max_failures \in 0..MaxFailureLimit
    /\ rotation_strategy \in Strategies
    /\ current_index = 0
    /\ poolOp = "init"
    /\ poolArg = NoReport
    /\ poolRet = RetNone
    /\ did_reset = FALSE
    /\ only_reports = FALSE

AddProxy(proxy) ==
    /\ Len(proxies) < MaxProxies
    /\ proxies' = Append(proxies, proxy)
    /\ failures' = Append(failures, 0)
    /\ poolOp' = "add_proxy"
    /\ poolArg' = NoReport
    /\ only_reports' = FALSE
    /\ UNCHANGED <<enabled, max_failures, rotation_strategy, current_index,
                   poolRet, did_reset>>
    /\ UNCHANGED <<sessionVars, batchVars, resolveVars, probeVars, scanVars, cleanVars>>

EnableProxy ==
    /\ enabled' = TRUE
    /\ poolOp' = "enable_proxy"
    /\ poolArg' = NoReport
    /\ only_reports' = FALSE
    /\ UNCHANGED <<proxies, max_failures, rotation_strategy, failures,
                   current_index, poolRet, did_reset>>
    /\ UNCHANGED <<sessionVars, batchVars, resolveVars, probeVars, scanVars, cleanVars>>

DisableProxy ==
    /\ enabled' = FALSE
    /\ poolOp' = "disable_proxy"
    /\ poolArg' = NoReport
    /\ only_reports' = FALSE
    /\ UNCHANGED <<proxies, max_failures, rotation_strategy, failures,
                   current_index, poolRet, did_reset>>
    /\ UNCHANGED <<sessionVars, batchVars, resolveVars, probeVars, scanVars, cleanVars>>

GetProxy(pick) ==
    /\ current_index < MaxCursor
    /\ rotation_strategy = "random" \/ pick = 0
    /\ LET r == get_proxy(pick)
       IN /\ poolRet' = r.ret
          /\ failures' = r.failures
          /\ current_index' = r.current_index
          /\ did_reset' = r.did_reset
    /\ poolOp' = "get_proxy"
    /\ poolArg' = NoReport
    /\ only_reports' = TRUE
    /\ UNCHANGED <<proxies, enabled, max_failures, rotation_strategy>>
    /\ UNCHANGED <<sessionVars, batchVars, resolveVars, probeVars, scanVars, cleanVars>>

\* ProxyManager.report_result for a proxy of the pool; a counter is not
\* driven further than one past max_failures.
ReportResult(i, success) ==
    /\ i \in DOMAIN proxies
    /\ success \/ failures[FirstMatching(proxies[i])] <= max_failures
    /\ failures' = IF success THEN mark_success(proxies[i]) ELSE mark_failure(proxies[i])
    /\ poolOp' = "report_result"
    /\ poolArg' = [idx |-> i, success |-> success]
    /\ UNCHANGED <<proxies, enabled, max_failures, rotation_strategy,
                   current_index, poolRet, did_reset, only_reports>>
    /\ UNCHANGED <<sessionVars, batchVars, resolveVars, probeVars, scanVars, cleanVars>>

PoolNext ==
    \/ \E proxy \in ProxyChoices : AddProxy(proxy)
    \/ EnableProxy
    \/ DisableProxy
    \/ \E pick \in 0..(MaxProxies - 1) : GetProxy(pick)
    \/ \E i \in 1..MaxProxies, success \in BOOLEAN : ReportResult(i, success)

SpecPool == PoolInit /\ [][PoolNext]_vars

(***************************************************************************)
(* Claims about the proxy pool (checked under SpecPool).                   *)
(***************************************************************************)
\* Every proxy of the pool has used up its failures.
Exhausted == \A i \in DOMAIN failures : failures[i] >= max_failures

\* C10: on an enabled, non-empty pool whose every counter is >= max_failures,
\* get_proxy() zeroes every counter and returns a proxy of the pool, under
\* each strategy; get_proxy() returns None only when the pool is disabled or
\* empty.
C10_ExhaustedPoolResets ==
    [][poolOp' = "get_proxy" =>
          /\ (enabled /\ Len(proxies) > 0 /\ Exhausted) =>
                /\ \A i \in DOMAIN failures' : failures'[i] = 0
                /\ poolRet'.kind = "proxy"
                /\ \E i \in DOMAIN proxies : poolRet'.proxy = proxies[i]
          /\ poolRet'.kind = "none" => (~enabled \/ Len(proxies) = 0)]_vars

\* C10 witness: a get_proxy() call found both proxies of the pool used up,
\* reset the counters and returned a proxy.
C10_Witness ==
    /\ poolOp = "get_proxy"
    /\ did_reset
    /\ max_failures >= 1
    /\ Len(proxies) >= 2
    /\ poolRet.kind = "proxy"
    /\ \A i \in DOMAIN failures : failures[i] = 0

\* C11 (as stated): report_result(p, False) adds exactly one to the failure
\* counter of the reported proxy p itself and report_result(p, True) zeroes
\* it, also when another descriptor of the pool has the same host and port;
\* every other counter and the round-robin cursor stay as they were.
C11_ReportHitsThatProxy ==
    [][poolOp' = "report_result" =>
          LET i == poolArg'.idx
          IN /\ failures'[i] = IF poolArg'.success THEN 0 ELSE failures[i] + 1
             /\ \A j \in DOMAIN failures \ {i} : failures'[j] = failures[j]
             /\ current_index' = current_index]_vars

\* The list get_proxy selects from: the proxies whose counter is below
\* max_failures, or the full list when there is none.
EligibleList ==
    IF Len(Available(failures, max_failures)) = 0
    THEN AllPositions(proxies)
    ELSE Available(failures, max_failures)

\* The 1-based place of the 0-based list position idx in the list el (0 when
\* it is not in it).
PlaceIn(el, idx) ==
    IF \E k \in DOMAIN el : el[k] = idx
    THEN CHOOSE k \in DOMAIN el : el[k] = idx
    ELSE 0

\* C22: on an enabled, non-empty pool, a round-robin get_proxy() returns the
\* proxy at place (current_index mod k) of the eligible list of k proxies and
\* adds one to current_index; a get_proxy() that directly follows another one
\* (same eligible list) returns the next proxy of that list, cyclically, so k
\* calls in a row return each eligible proxy once in list order.  Under
\* random and least_used current_index never changes.
C22_RoundRobinCursor ==
    [][poolOp' = "get_proxy" =>
          /\ (rotation_strategy = "round_robin" /\ enabled /\ Len(proxies) > 0) =>
                /\ poolRet'.kind = "proxy"
                /\ poolRet'.idx = EligibleList[(current_index % Len(EligibleList)) + 1]
                /\ current_index' = current_index + 1
                /\ (poolOp = "get_proxy" /\ poolRet.kind = "proxy") =>
                      /\ PlaceIn(EligibleList, poolRet.idx) > 0
                      /\ poolRet'.idx =
                            EligibleList[(PlaceIn(EligibleList, poolRet.idx)
                                            % Len(EligibleList)) + 1]
          /\ rotation_strategy # "round_robin" => current_index' = current_index]_vars

\* C22 witness: round robin on a pool of two proxies of which only the second
\* is eligible: the third get_proxy() in a row (cursor 2, k = 1) returned the
\* second proxy.
C22_Witness ==
    /\ poolOp = "get_proxy"
    /\ rotation_strategy = "round_robin"
    /\ Len(proxies) = 2
    /\ failures[1] >= max_failures
    /\ failures[2] < max_failures
    /\ ~did_reset
    /\ current_index = 3
    /\ poolRet.kind = "proxy"
    /\ poolRet.idx = 1

\* C29: with max_failures >= 1, the proxy get_proxy() returns has, when it is
\* returned, a failure counter below max_failures; and when at least one
\* proxy is eligible get_proxy() changes no failure counter.
C29_ReturnedProxyBelowLimit ==
    [][(poolOp' = "get_proxy" /\ max_failures >= 1) =>
          /\ poolRet'.kind = "proxy" =>
                failures'[poolRet'.idx + 1] < max_failures
          /\ Len(Available(failures, max_failures)) > 0 =>
                failures' = failures]_vars

\* C29 witness: get_proxy() on a pool of two, the first used up and the
\* second not, returned the second without a reset.
C29_Witness ==
    /\ poolOp = "get_proxy"
    /\ max_failures >= 1
    /\ Len(proxies) = 2
    /\ failures[1] >= max_failures
    /\ failures[2] = max_failures - 1
    /\ ~did_reset
    /\ poolRet.kind = "proxy"
    /\ poolRet.idx = 1

\* C30 (as stated): under round robin, when only report_result calls lie
\* between two get_proxy() calls and at least two proxies are eligible at the
\* second call, the second call does not return the proxy the first returned.
C30_NoRepeatWhileTwoEligible ==
    [][(/\ poolOp' = "get_proxy"
        /\ rotation_strategy = "round_robin"
        /\ only_reports
        /\ poolRet.kind = "proxy"
        /\ poolRet'.kind = "proxy"
        /\ Len(Available(failures, max_failures)) >= 2)
          => poolRet'.idx # poolRet.idx]_vars

(***************************************************************************)
(* The fingerprint resolver: ConfigManager.get_system_config               *)
(* (config_manager.py) and SimpleConfigManager.get_system_config           *)
(* (simple_config.py).  A string is a sequence of one-character strings;   *)
(* a url is written without its "scheme://" prefix.                        *)
(***************************************************************************)
LowerChar(c) ==
    CASE c = "A" -> "a"
      [] c = "B" -> "b"
      [] c = "C" -> "c"
      [] OTHER   -> c

\* str.lower()
lower(str) == [i \in DOMAIN str |-> LowerChar(str[i])]

\* Python's `sub in str` for two strings
In(sub, str) ==
    \E i \in 0..(Len(str) - Len(sub)) : SubSeq(str, i + 1, i + Len(sub)) = sub

\* urlparse(url).path: from the first "/" after the host, empty if none
path(url) ==
    LET slashes == {i \in DOMAIN url : url[i] = "/"}
    IN IF slashes = {} THEN << >>
       ELSE SubSeq(url, CHOOSE i \in slashes : \A j \in slashes : i <= j, Len(url))

Urls ==
    { <<"a", "/", "b">>, <<"A", "/", "b">>, <<"b", "/", "a">>, <<"c", "/", "c">> }

Pattern(type, value) == [type |-> type, value |-> value]

\* The `patterns` lists of the profiles a configuration file defines.
PatternLists ==
    { << >>,
      <<Pattern("url_contains", <<"a">>)>>,
      <<Pattern("url_contains", <<"A">>)>>,
      <<Pattern("url_contains", <<"a">>), Pattern("url_contains", <<"b">>)>>,
      <<Pattern("url_contains", <<"a">>), Pattern("url_contains", <<"y">>),
        Pattern("url_contains", <<"z">>)>>,
      <<Pattern("path_contains", <<"a">>)>> }

SystemIds == {"crm", "httpbin", "generic"}

SystemConfig(id, patterns) == [id |-> id, patterns |-> patterns]

\* A returned profile; builtin marks the SystemConfig that ConfigManager
\* constructs when the table has no "generic" key.
Profile(sys) ==
    [kind |-> "profile", id |-> sys.id, patterns |-> sys.patterns, builtin |-> FALSE]

BuiltinGeneric ==
    [kind |-> "profile", id |-> "generic", patterns |-> << >>, builtin |-> TRUE]

NoProfile == [kind |-> "none", id |-> "", patterns |-> << >>, builtin |-> FALSE]

\* self.config.systems.get(key, default)
systems_get(key, default) ==
    IF \E i \in DOMAIN systems : systems[i].id = key
    THEN Profile(systems[CHOOSE i \in DOMAIN systems : systems[i].id = key])
    ELSE default

\* ConfigManager: match_count of one profile; only url_contains is counted.
match_count(patterns, url_lower) ==
    Cardinality({i \in DOMAIN patterns :
                    /\ patterns[i].type = "url_contains"
                    /\ In(lower(patterns[i].value), url_lower)})

ConfigManager_get_system_config(url) ==
    LET url_lower == lower(url)
        hits == {i \in DOMAIN systems :
                    /\ systems[i].id # "generic"
                    /\ Len(systems[i].patterns) > 0
                    /\ 2 * match_count(systems[i].patterns, url_lower)
                          >= Len(systems[i].patterns)}
    IN IF hits # {}
       THEN Profile(systems[CHOOSE i \in hits : \A j \in hits : i <= j])
       ELSE systems_get("generic", BuiltinGeneric)

\* SimpleConfigManager: the first profile with any url_contains pattern whose
\* value is in the url as given; "generic" is not skipped.
SimpleConfigManager_get_system_config(url) ==
    LET hits == {i \in DOMAIN systems :
                    \E k \in DOMAIN systems[i].patterns :
                        /\ systems[i].patterns[k].type = "url_contains"
                        /\ In(systems[i].patterns[k].value, url)}
    IN IF hits # {}
       THEN Profile(systems[CHOOSE i \in hits : \A j \in hits : i <= j])
       ELSE systems_get("generic", systems_get("httpbin", NoProfile))

ResolveInit ==
    /\ SessionIdle
    /\ CleanIdle
    /\ ScanIdle
    /\ ProbeIdle
    /\ BatchIdle
    /\ PoolIdle
    /\ resolver \in {"ConfigManager", "SimpleConfigManager"}
    /\ systems = << >>
    /\ rUrl = << >>
    /\ rRet = NoLookup

\* One entry of the `systems` map of the loaded configuration.
AddSystem(id, patterns) ==
    /\ Len(systems) < MaxSystems
    /\ \A i \in DOMAIN systems : systems[i].id # id
    /\ systems' = Append(systems, SystemConfig(id, patterns))
    /\ rUrl' = << >>
    /\ rRet' = NoLookup
    /\ UNCHANGED resolver
    /\ UNCHANGED <<sessionVars, batchVars, poolVars, probeVars, scanVars, cleanVars>>

GetSystemConfig(url) ==
    /\ rUrl' = url
    /\ rRet' = IF resolver = "ConfigManager"
               THEN ConfigManager_get_system_config(url)
               ELSE SimpleConfigManager_get_system_config(url)
    /\ UNCHANGED <<resolver, systems>>
    /\ UNCHANGED <<sessionVars, batchVars, poolVars, probeVars, scanVars, cleanVars>>

ResolveNext ==
    \/ \E id \in SystemIds, patterns \in PatternLists : AddSystem(id, patterns)
    \/ \E url \in Urls : GetSystemConfig(url)

SpecResolve == ResolveInit /\ [][ResolveNext]_vars

(***************************************************************************)
(* Claims about the resolver (checked under SpecResolve).                  *)
(***************************************************************************)
\* The match rule as specified: a pattern matches as a case-insensitive
\* substring of the full url, or of the url's path for path_contains.
PatternMatches(pattern, url) ==
    \/ /\ pattern.type = "url_contains"
       /\ In(lower(pattern.value), lower(url))
    \/ /\ pattern.type = "path_contains"
       /\ In(lower(pattern.value), lower(path(url)))

\* At least one pattern, and at least ceil(n / 2) of the n patterns match.
MeetsMatchRule(patterns, url) ==
    /\ Len(patterns) >= 1
    /\ 2 * Cardinality({k \in DOMAIN patterns : PatternMatches(patterns[k], url)})
          >= Len(patterns)

\* C12 (as stated): under either resolver, get_system_config(url) returns a
\* non-generic profile only if that profile has a pattern and at least half
\* of its patterns (rounded up) match the url.
C12_SelectedMeetsMatchRule ==
    (rRet.kind = "profile" /\ rRet.id # "generic") =>
        MeetsMatchRule(rRet.patterns, rUrl)

\* The non-generic profiles of the table that meet the match rule for rUrl.
Eligible ==
    {i \in DOMAIN systems :
        systems[i].id # "generic" /\ MeetsMatchRule(systems[i].patterns, rUrl)}

\* C13 (as stated): get_system_config(url) always returns a profile: the
\* first profile in registration order that meets the match rule, and the
\* generic profile exactly when no non-generic profile meets it.
C13_AlwaysFirstMatchOrGeneric ==
    rRet.kind # "init" =>
        /\ rRet.kind = "profile"
        /\ IF Eligible # {}
           THEN rRet = Profile(systems[CHOOSE i \in Eligible :
                                          \A j \in Eligible : i <= j])
           ELSE rRet.id = "generic"

(***************************************************************************)
(* One probe: _check_response and verify_login (async_verifier.py),        *)
(* _check_response, _verify_sync and _verify_async (unified_verifier.py),  *)
(* check_success (weakpass_scanner_gui.py).  A response body is given by   *)
(* the marker strings that occur in it, its length and its JSON reading:   *)
(* `value in content` is membership in content.tokens.  Indicator values   *)
(* have the type their kind takes (a number for status_code and            *)
(* body_length_gt, a string for the two body kinds).                       *)
(***************************************************************************)
StatusCodes == {200, 401}

Contents ==
    { Content({"Message"}, 26, "dict_with_Message", "bad password"),
      Content({"Message", "error"}, 60, "invalid", ""),
      Content({"welcome"}, 120, "invalid", ""),
      Content({"welcome"}, 20, "dict", ""),
      Content({}, 0, "invalid", "") }

FailureLists ==
    { << >>,
      <<Indicator("body_contains", "Message", 0)>>,
      <<Indicator("status_code", "", 401)>>,
      <<Indicator("status_code", "", 401), Indicator("body_contains", "Message", 0)>>,
      <<Indicator("body_contains", "error", 0), Indicator("body_contains", "Message", 0)>>,
      <<Indicator("body_not_contains", "welcome", 0)>>,
      <<Indicator("body_length_gt", "", 100)>> }

SuccessLists ==
    { << >>,
      <<Indicator("status_code", "", 200)>>,
      <<Indicator("status_code", "", 200), Indicator("body_length_gt", "", 50)>>,
      <<Indicator("status_code", "", 200), Indicator("body_length_gt", "", 50),
        Indicator("body_contains", "welcome", 0)>>,
      <<Indicator("status_code", "", 200), Indicator("body_length_gt", "", 100),
        Indicator("body_not_contains", "Message", 0)>> }

\* What the request can raise: nothing, or an exception of the HTTP client
\* library or of the probe's own code.  In the library's class hierarchy
\* (aiohttp / requests) InvalidURL and ClientPayloadError (an invalid target
\* url; a body that cannot be read or decompressed) derive from the same
\* base class as the connection errors: aiohttp.ClientError, respectively
\* requests.exceptions.RequestException.  AttributeError is what the use
\* of a sys_config of None raises; ValueError stands for any other error.
Exceptions ==
    {"none", "TimeoutError", "ClientConnectorError", "ClientSSLError",
     "InvalidURL", "ClientPayloadError", "AttributeError", "ValueError"}

\* caught by `except asyncio.TimeoutError` / `except requests.exceptions.Timeout`
IsTimeout(e) == e = "TimeoutError"

\* caught by `except aiohttp.ClientError` / `except requests.exceptions.RequestException`
IsClientError(e) ==
    e \in {"ClientConnectorError", "ClientSSLError", "InvalidURL", "ClientPayloadError"}

\* len(str(e))
ExcTextLen(e) == IF e \in {"InvalidURL", "ValueError"} THEN 80 ELSE 20

\* len(str(e)[:50])
Truncated(n) == IF n > 50 THEN 50 ELSE n

\* The failure scan: only body_contains and status_code are looked at.
FailureHit(ind, status_code, content) ==
    \/ ind.type = "body_contains" /\ ind.text \in content.tokens
    \/ ind.type = "status_code" /\ status_code = ind.num

\* The success count: all four indicator kinds.
SuccessHit(ind, status_code, content) ==
    \/ ind.type = "status_code" /\ status_code = ind.num
    \/ ind.type = "body_length_gt" /\ content.len > ind.num
    \/ ind.type = "body_contains" /\ ind.text \in content.tokens
    \/ ind.type = "body_not_contains" /\ ind.text \notin content.tokens

\* The message of a matching failure indicator: the body's Message field
\* when the body parses as a JSON object that has one.
FailureMessage(ind, content) ==
    IF ind.type = "body_contains"
    THEN IF content.json = "dict_with_Message"
         THEN Message("Message_field", content.Message, 0)
         ELSE Message("contains", ind.text, 0)
    ELSE Message("http_status", "", ind.num)

success_count(a) ==
    Cardinality({i \in DOMAIN a.success_indicators :
                    SuccessHit(a.success_indicators[i], a.status_code, a.content)})

\* Mutant of success_threshold: half of the indicators are enough.
success_threshold_half(n) == n \div 2

\* max(1, len(success_indicators) // 2 + 1)
success_threshold(n) == IF n \div 2 + 1 >= 1 THEN n \div 2 + 1 ELSE 1

Verdict(success, message) == [status |-> "", success |-> success, message |-> message]

_check_response(a) ==
    LET hits == {i \in DOMAIN a.failure_indicators :
                    FailureHit(a.failure_indicators[i], a.status_code, a.content)}
        first == CHOOSE i \in hits : \A j \in hits : i <= j
    IN IF hits # {}
       THEN Verdict(FALSE, FailureMessage(a.failure_indicators[first], a.content))
       ELSE IF success_count(a) >= success_threshold(Len(a.success_indicators))
       THEN Verdict(TRUE, Message("login_success", "", 0))
       ELSE Verdict(FALSE, Message("unknown_response", "", 0))

\* WeakpassScannerCore.check_success: the same scan, threshold n // 2 + 1.
check_success(a) ==
    LET hits == {i \in DOMAIN a.failure_indicators :
                    FailureHit(a.failure_indicators[i], a.status_code, a.content)}
        first == CHOOSE i \in hits : \A j \in hits : i <= j
    IN IF hits # {}
       THEN Verdict(FALSE, FailureMessage(a.failure_indicators[first], a.content))
       ELSE IF success_count(a) >= Len(a.success_indicators) \div 2 + 1
       THEN Verdict(TRUE, Message("login_success", "", 0))
       ELSE Verdict(FALSE, Message("unknown_response", "", 0))

ProbeResult(status, message) ==
    [status |-> status, success |-> (status = "SUCCESS"), message |-> message]

\* verify_login / _verify_async / _verify_sync: the try block and its three
\* except clauses, in their order.
_verify_sync(a) ==
    IF a.exc = "none"
    THEN LET v == _check_response(a)
         IN ProbeResult(IF v.success THEN "SUCCESS" ELSE "PASSWORD_ERROR", v.message)
    ELSE IF IsTimeout(a.exc)
    THEN ProbeResult("TIMEOUT_ERROR", Message("timeout", "", 0))
    ELSE IF IsClientError(a.exc)
    THEN ProbeResult("CONNECTION_ERROR",
                     Message("connection_error", a.exc, Truncated(ExcTextLen(a.exc))))
    ELSE ProbeResult("UNKNOWN_ERROR",
                     Message("unknown_error", a.exc, Truncated(ExcTextLen(a.exc))))

ProbeInit ==
    /\ SessionIdle
    /\ CleanIdle
    /\ ScanIdle
    /\ BatchIdle
    /\ PoolIdle
    /\ ResolveIdle
    /\ probeOp = "init"
    /\ \E fi \in FailureLists, si \in SuccessLists, sc \in StatusCodes,
          c \in Contents, e \in Exceptions :
          probeArg = [failure_indicators |-> fi, success_indicators |-> si,
                      status_code |-> sc, content |-> c, exc |-> e]
    /\ probeRet = NoVerdict

CheckResponse ==
    /\ probeOp = "init"
    /\ probeArg.exc = "none"
    /\ probeOp' = "_check_response"
    /\ probeRet' = _check_response(probeArg)
    /\ UNCHANGED probeArg
    /\ UNCHANGED <<sessionVars, batchVars, poolVars, resolveVars, scanVars, cleanVars>>

CheckSuccess ==
    /\ probeOp = "init"
    /\ probeArg.exc = "none"
    /\ probeOp' = "check_success"
    /\ probeRet' = check_success(probeArg)
    /\ UNCHANGED probeArg
    /\ UNCHANGED <<sessionVars, batchVars, poolVars, resolveVars, scanVars, cleanVars>>

VerifyLogin(fn) ==
    /\ probeOp = "init"
    /\ probeOp' = fn
    /\ probeRet' = _verify_sync(probeArg)
    /\ UNCHANGED probeArg
    /\ UNCHANGED <<sessionVars, batchVars, poolVars, resolveVars, scanVars, cleanVars>>

ProbeNext ==
    \/ CheckResponse
    \/ CheckSuccess
    \/ \E fn \in {"verify_login", "_verify_sync"} : VerifyLogin(fn)

SpecProbe == ProbeInit /\ [][ProbeNext]_vars

(***************************************************************************)
(* Claims about one probe (checked under SpecProbe).                       *)
(***************************************************************************)
\* An indicator as a predicate over the response, for each of its four kinds.
IndicatorMatches(ind, status_code, content) ==
    \/ ind.type = "status_code" /\ status_code = ind.num
    \/ ind.type = "body_contains" /\ ind.text \in content.tokens
    \/ ind.type = "body_not_contains" /\ ind.text \notin content.tokens
    \/ ind.type = "body_length_gt" /\ content.len > ind.num

\* The failure indicators of probeArg that match its response.
MatchingFailures ==
    {i \in DOMAIN probeArg.failure_indicators :
        IndicatorMatches(probeArg.failure_indicators[i],
                         probeArg.status_code, probeArg.content)}

\* C14 (as stated): when a failure indicator of any kind matches, the
\* verdict is success = false, also when enough success indicators match;
\* the message is that of the first matching failure indicator, and for a
\* body_contains match on a JSON body with a Message field it is that field.
C14_FailureIndicatorWins ==
    (probeOp \in {"_check_response", "check_success"} /\ MatchingFailures # {}) =>
        LET first == CHOOSE i \in MatchingFailures : \A j \in MatchingFailures : i <= j
            ind == probeArg.failure_indicators[first]
        IN /\ ~probeRet.success
           /\ (ind.type = "body_contains"
                  /\ probeArg.content.json = "dict_with_Message") =>
                 probeRet.message = Message("Message_field", probeArg.content.Message, 0)
           /\ (ind.type = "status_code") =>
                 probeRet.message = Message("http_status", "", ind.num)

\* The number of success indicators of probeArg that match its response.
MatchingSuccesses ==
    Cardinality({i \in DOMAIN probeArg.success_indicators :
                    IndicatorMatches(probeArg.success_indicators[i],
                                     probeArg.status_code, probeArg.content)})

Cause(e) ==
    CASE e = "TimeoutError" -> "timeout"
      [] e \in {"ClientConnectorError", "ClientSSLError"} -> "connection"
      [] OTHER -> "other"

\* C16 (as stated): a timeout gives TIMEOUT_ERROR, a connection, DNS or TLS
\* failure CONNECTION_ERROR, any other exception UNKNOWN_ERROR with a message
\* of bounded length, a heuristic-positive response SUCCESS and a
\* heuristic-negative one PASSWORD_ERROR.
C16_OutcomeToStatus ==
    probeOp \in {"verify_login", "_verify_sync"} =>
        IF probeArg.exc = "none"
        THEN probeRet.status =
                IF _check_response(probeArg).success THEN "SUCCESS" ELSE "PASSWORD_ERROR"
        ELSE /\ Cause(probeArg.exc) = "timeout" => probeRet.status = "TIMEOUT_ERROR"
             /\ Cause(probeArg.exc) = "connection" => probeRet.status = "CONNECTION_ERROR"
             /\ Cause(probeArg.exc) = "other" =>
                   /\ probeRet.status = "UNKNOWN_ERROR"
                   /\ probeRet.message.num <= 50

(***************************************************************************)
(* A scan under pause / resume / stop.                                     *)
(*   driver = "scanner_core": WeakpassScannerCore.scan_batch_smart runs in *)
(*     a worker thread while the GUI thread calls pause(), resume() and    *)
(*     stop() (weakpass_scanner_gui.py); each statement of either thread   *)
(*     is one step.  The request of a target counts as sent when wait()    *)
(*     returns.                                                            *)
(*   driver = "main_app": _start_batch_verify's worker awaits              *)
(*     verifier.verify_batch(batch_targets) and then walks the results,    *)
(*     while the GUI thread calls _stop_batch_verify (main_app.py).        *)
(***************************************************************************)
\* The worker thread has been started: scan_batch_smart is at line 432
\* (WeakpassScannerCore), or batch_worker at verify_batch with
\* stop_flag = False (main_app).  The flags of a scanner core are as its
\* __init__ left them.
ScanInit ==
    /\ SessionIdle
    /\ CleanIdle
    /\ BatchIdle
    /\ PoolIdle
    /\ ResolveIdle
    /\ ProbeIdle
    /\ driver \in {"scanner_core", "main_app"}
    /\ scanTotal \in 0..MaxScan
    /\ scanPc = IF driver = "scanner_core" THEN "l432" ELSE "verify_batch"
    /\ scanI = 0
    /\ is_paused = FALSE
    /\ stop_flag = FALSE
    /\ pause_event = TRUE
    /\ guiPc = "idle"
    /\ nsent = 0
    /\ delivered = 0

\* self.is_paused = False
ResetPaused ==
    /\ scanPc = "l432"
    /\ is_paused' = FALSE
    /\ scanPc' = "l433"
    /\ UNCHANGED <<driver, scanTotal, scanI, stop_flag, pause_event, guiPc, nsent, delivered>>
    /\ UNCHANGED <<sessionVars, batchVars, poolVars, resolveVars, probeVars, cleanVars>>

\* self.stop_flag = False
ResetStop ==
    /\ scanPc = "l433"
    /\ stop_flag' = FALSE
    /\ scanPc' = "l434"
    /\ UNCHANGED <<driver, scanTotal, scanI, is_paused, pause_event, guiPc, nsent, delivered>>
    /\ UNCHANGED <<sessionVars, batchVars, poolVars, resolveVars, probeVars, cleanVars>>

\* self._pause_event.set(), then the for loop starts
SetEvent ==
    /\ scanPc = "l434"
    /\ pause_event' = TRUE
    /\ scanPc' = IF scanTotal = 0 THEN "done" ELSE "l443"
    /\ UNCHANGED <<driver, scanTotal, scanI, is_paused, stop_flag, guiPc, nsent, delivered>>
    /\ UNCHANGED <<sessionVars, batchVars, poolVars, resolveVars, probeVars, cleanVars>>

\* if self.stop_flag: break
CheckStop ==
    /\ scanPc = "l443"
    /\ scanPc' = IF stop_flag THEN "done" ELSE "l449"
    /\ UNCHANGED <<driver, scanTotal, scanI, is_paused, stop_flag, pause_event, guiPc,
                   nsent, delivered>>
    /\ UNCHANGED <<sessionVars, batchVars, poolVars, resolveVars, probeVars, cleanVars>>

\* self._pause_event.wait() returns and try_login_smart sends the request
WaitAndSend ==
    /\ scanPc = "l449"
    /\ pause_event
    /\ nsent' = nsent + 1
    /\ scanPc' = "in_flight"
    /\ UNCHANGED <<driver, scanTotal, scanI, is_paused, stop_flag, pause_event, guiPc,
                   delivered>>
    /\ UNCHANGED <<sessionVars, batchVars, poolVars, resolveVars, probeVars, cleanVars>>

\* try_login_smart returns; the result is counted and reported, and the
\* loop goes on to the next target or ends.
Complete ==
    /\ scanPc = "in_flight"
    /\ delivered' = delivered + 1
    /\ scanI' = scanI + 1
    /\ scanPc' = IF scanI + 1 < scanTotal THEN "l443" ELSE "done"
    /\ UNCHANGED <<driver, scanTotal, is_paused, stop_flag, pause_event, guiPc, nsent>>
    /\ UNCHANGED <<sessionVars, batchVars, poolVars, resolveVars, probeVars, cleanVars>>

\* main_app: verify_batch sends the request of the next target; it never
\* looks at stop_flag.
BatchSend ==
    /\ scanPc = "verify_batch"
    /\ nsent < scanTotal
    /\ nsent' = nsent + 1
    /\ UNCHANGED <<driver, scanTotal, scanPc, scanI, is_paused, stop_flag, pause_event,
                   guiPc, delivered>>
    /\ UNCHANGED <<sessionVars, batchVars, poolVars, resolveVars, probeVars, cleanVars>>

\* main_app: verify_batch has returned the whole result list.
BatchReturned ==
    /\ scanPc = "verify_batch"
    /\ nsent = scanTotal
    /\ scanPc' = IF scanTotal = 0 THEN "done" ELSE "l706"
    /\ UNCHANGED <<driver, scanTotal, scanI, is_paused, stop_flag, pause_event, guiPc,
                   nsent, delivered>>
    /\ UNCHANGED <<sessionVars, batchVars, poolVars, resolveVars, probeVars, cleanVars>>

\* main_app: for i, result in enumerate(results): if self.stop_flag: break;
\* otherwise the result is put on the result queue.
DeliverResult ==
    /\ scanPc = "l706"
    /\ IF stop_flag
       THEN /\ scanPc' = "done"
            /\ UNCHANGED <<scanI, delivered>>
       ELSE /\ delivered' = delivered + 1
            /\ scanI' = scanI + 1
            /\ scanPc' = IF scanI + 1 < scanTotal THEN "l706" ELSE "done"
    /\ UNCHANGED <<driver, scanTotal, is_paused, stop_flag, pause_event, guiPc, nsent>>
    /\ UNCHANGED <<sessionVars, batchVars, poolVars, resolveVars, probeVars, cleanVars>>

\* pause(): self.is_paused = True
PauseFlag ==
    /\ driver = "scanner_core"
    /\ scanPc # "done"
    /\ guiPc = "idle"
    /\ is_paused' = TRUE
    /\ guiPc' = "pause"
    /\ UNCHANGED <<driver, scanTotal, scanPc, scanI, stop_flag, pause_event, nsent, delivered>>
    /\ UNCHANGED <<sessionVars, batchVars, poolVars, resolveVars, probeVars, cleanVars>>

\* pause(): self._pause_event.clear()
PauseClear ==
    /\ guiPc = "pause"
    /\ pause_event' = FALSE
    /\ guiPc' = "idle"
    /\ UNCHANGED <<driver, scanTotal, scanPc, scanI, is_paused, stop_flag, nsent, delivered>>
    /\ UNCHANGED <<sessionVars, batchVars, poolVars, resolveVars, probeVars, cleanVars>>

\* resume(): self.is_paused = False
ResumeFlag ==
    /\ driver = "scanner_core"
    /\ scanPc # "done"
    /\ guiPc = "idle"
    /\ is_paused' = FALSE
    /\ guiPc' = "resume"
    /\ UNCHANGED <<driver, scanTotal, scanPc, scanI, stop_flag, pause_event, nsent, delivered>>
    /\ UNCHANGED <<sessionVars, batchVars, poolVars, resolveVars, probeVars, cleanVars>>

\* resume(): self._pause_event.set()
ResumeSet ==
    /\ guiPc = "resume"
    /\ pause_event' = TRUE
    /\ guiPc' = "idle"
    /\ UNCHANGED <<driver, scanTotal, scanPc, scanI, is_paused, stop_flag, nsent, delivered>>
    /\ UNCHANGED <<sessionVars, batchVars, poolVars, resolveVars, probeVars, cleanVars>>

\* stop() / _stop_batch_verify(): self.stop_flag = True
StopFlag ==
    /\ scanPc # "done"
    /\ guiPc = "idle"
    /\ stop_flag' = TRUE
    /\ guiPc' = IF driver = "scanner_core" THEN "stop" ELSE "idle"
    /\ UNCHANGED <<driver, scanTotal, scanPc, scanI, is_paused, pause_event, nsent, delivered>>
    /\ UNCHANGED <<sessionVars, batchVars, poolVars, resolveVars, probeVars, cleanVars>>

\* stop(): self._pause_event.set()
StopSet ==
    /\ guiPc = "stop"
    /\ pause_event' = TRUE
    /\ guiPc' = "idle"
    /\ UNCHANGED <<driver, scanTotal, scanPc, scanI, is_paused, stop_flag, nsent, delivered>>
    /\ UNCHANGED <<sessionVars, batchVars, poolVars, resolveVars, probeVars, cleanVars>>

Worker ==
    \/ ResetPaused
    \/ ResetStop
    \/ SetEvent
    \/ CheckStop
    \/ WaitAndSend
    \/ Complete
    \/ BatchSend
    \/ BatchReturned
    \/ DeliverResult

ScanNext ==
    \/ Worker
    \/ PauseFlag
    \/ PauseClear
    \/ ResumeFlag
    \/ ResumeSet
    \/ StopFlag
    \/ StopSet

SpecScan == ScanInit /\ [][ScanNext]_vars

(***************************************************************************)
(* Claims about pause / resume / stop (checked under SpecScan).            *)
(***************************************************************************)
\* C17 (as stated): once stop() has set the stop flag no request is sent,
\* and when the scan is over every request that was sent has delivered its
\* result.
C17_StopHaltsSubmission ==
    [][/\ (nsent' > nsent /\ guiPc = "idle") => ~stop_flag
       /\ scanPc' = "done" => delivered' = nsent']_vars

\* C18 (as stated, safety part): while the pause flag is set (pause() has
\* returned, no resume() since) the submission loop sends no request.
C18_PausedSendsNothing ==
    [][(nsent' > nsent /\ guiPc = "idle") => ~is_paused]_vars

\* The scheduling of the two threads: a thread that can take a step takes
\* it, a waiter on the event gets through if the event is set again and
\* again, and the user does not leave a scan paused for ever.
SpecScanFair ==
    /\ SpecScan
    /\ WF_vars(ResetPaused \/ ResetStop \/ SetEvent \/ CheckStop \/ Complete
               \/ BatchSend \/ BatchReturned \/ DeliverResult)
    /\ SF_vars(WaitAndSend)
    /\ WF_vars(PauseClear \/ ResumeSet \/ StopSet)
    /\ SF_vars(ResumeFlag \/ StopFlag)

\* C18 (liveness part): with a later resume() or stop() the scan ends.
ScanTerminates == <>(scanPc = "done")

(***************************************************************************)
(* Cleanup of old session files: ProgressManager.cleanup_old_sessions      *)
(* (progress_manager.py).  Time is counted in days; day 0 is the day of    *)
(* datetime.min, the earliest value a datetime can hold.                   *)
(***************************************************************************)
FileNames == 1..MaxFiles

AbsentFile == [present |-> FALSE, mtime |-> 0]

\* What can go wrong with one file during the pass: stat() raises, or
\* unlink() raises.
FileFaults == {"none", "stat", "unlink"}

\* cleanup_old_sessions: cutoff_time is computed before the loop, outside
\* its try; datetime.now() - timedelta(days=max_age_days) raises
\* OverflowError when the result would lie before datetime.min.  In the loop
\* each *.json file whose mtime is before cutoff_time is unlinked; an
\* exception of stat() or unlink() is caught per file.
cleanup_old_sessions(dir, now, max_age_days, fault) ==
    IF now - max_age_days < 0
    THEN [exc |-> "OverflowError", dir |-> dir]
    ELSE LET cutoff_time == now - max_age_days
         IN [exc |-> "none",
             dir |-> [f \in DOMAIN dir |->
                        IF /\ dir[f].present
                           /\ fault[f] = "none"
                           /\ dir[f].mtime < cutoff_time
                        THEN AbsentFile
                        ELSE dir[f]]]

\* A ProgressManager on a directory of session files saved on earlier days.
CleanInit ==
    /\ SessionIdle
    /\ BatchIdle
    /\ PoolIdle
    /\ ResolveIdle
    /\ ProbeIdle
    /\ ScanIdle
    /\ today \in 0..MaxDay
    /\ save_dir \in [FileNames -> {AbsentFile} \cup
                                    {[present |-> TRUE, mtime |-> d] : d \in 0..MaxDay}]
    /\ \A f \in FileNames : save_dir[f].mtime <= today
    /\ cleanOp = "init"
    /\ cleanArg = NoCleanup
    /\ cleanExc = "none"

\* save_session writes the file f today.
SaveFile(f) ==
    /\ save_dir' = [save_dir EXCEPT ![f] = [present |-> TRUE, mtime |-> today]]
    /\ cleanOp' = "save_session"
    /\ cleanArg' = NoCleanup
    /\ cleanExc' = "none"
    /\ UNCHANGED today
    /\ UNCHANGED <<sessionVars, batchVars, poolVars, resolveVars, probeVars, scanVars>>

\* A day passes.
DayPasses ==
    /\ today < MaxDay
    /\ today' = today + 1
    /\ cleanOp' = "day"
    /\ cleanArg' = NoCleanup
    /\ cleanExc' = "none"
    /\ UNCHANGED save_dir
    /\ UNCHANGED <<sessionVars, batchVars, poolVars, resolveVars, probeVars, scanVars>>

CleanupOldSessions(max_age_days, fault) ==
    /\ LET r == cleanup_old_sessions(save_dir, today, max_age_days, fault)
       IN /\ save_dir' = r.dir
          /\ cleanExc' = r.exc
    /\ cleanOp' = "cleanup_old_sessions"
    /\ cleanArg' = [max_age_days |-> max_age_days, fault |-> fault, found |-> save_dir]
    /\ UNCHANGED today
    /\ UNCHANGED <<sessionVars, batchVars, poolVars, resolveVars, probeVars, scanVars>>

CleanNext ==
    \/ \E f \in FileNames : SaveFile(f)
    \/ DayPasses
    \/ \E max_age_days \in 0..(MaxDay + 1), fault \in [FileNames -> FileFaults] :
          CleanupOldSessions(max_age_days, fault)

SpecClean == CleanInit /\ [][CleanNext]_vars

(***************************************************************************)
(* Claims about cleanup (checked under SpecClean).                         *)
(***************************************************************************)
\* C24 (as stated): cleanup(max_age_days) never raises; it deletes every
\* session file whose modification time is more than max_age_days back,
\* except one whose inspection or deletion failed, and keeps every other
\* file as it was.
C24_CleanupDeletesOldOnly ==
    cleanOp = "cleanup_old_sessions" =>
        /\ cleanExc = "none"
        /\ \A f \in FileNames :
              LET was == cleanArg.found[f]
                  old == was.present /\ was.mtime < today - cleanArg.max_age_days
              IN IF old /\ cleanArg.fault[f] = "none"
                 THEN ~save_dir[f].present
                 ELSE save_dir[f] = was


====
